---- MODULE Spec2Model ----
(***************************************************************************)
(* Optimistic mutation and polling of the record table of                  *)
(* frontend_react/src/App.js (component App) against the remote service    *)
(* reached through frontend_react/src/api.js.                              *)
(*                                                                         *)
(* Every handler of App is cut at its await: the synchronous prefix is one *)
(* action, each continuation (try / catch / finally after the await) is    *)
(* one action.  The remote service is the environment: its answers are     *)
(* drawn from small sets.  It numbers the records it creates in the order  *)
(* the POST requests are sent, and it knows no record with a temporary     *)
(* (negative) id, so a PUT on such an id fails.                            *)
(*                                                                         *)
(* A render that throws removes the component tree (there is no error      *)
(* boundary): from then on no handler runs and no state is set.            *)
(* Not part of the state: the search text (filtered is a projection of     *)
(* records), the visibility of the create modal (the form can always be    *)
(* opened and submitted), a delete the user does not confirm (no effect).  *)
(*                                                                         *)
(* Spec is the life of the mounted component.  SpecLifecycle adds the      *)
(* unmount of the component and the answer to a poll that arrives after    *)
(* it.                                                                     *)
(***************************************************************************)
EXTENDS Integers, Sequences, FiniteSets, TLC

\* ---- bounds of the model ----
MaxSnapshotLen == 1   \* longest list a poll returns
MaxPolls == 2         \* polls started in one session
MaxMutations == 2     \* creates, updates and deletes started in one session

VARIABLES
    records,     \* useState([])        App.js:23
    loading,     \* useState(true)      App.js:24
    busyIds,     \* useState(new Set()) App.js:25
    error,       \* useState("")        App.js:26
    editOpen,    \* useState(false)     App.js:31
    editing,     \* useState(null)      App.js:32; it is read only while the edit
                 \* modal is open, so its value is not kept after the modal closes
    tempId,      \* let tempId = -1     App.js:12
    abortRef,    \* useRef(null): number of the latest AbortController, 0 = null
    polls,       \* fetchRecords calls suspended at their await (controller numbers)
    aborted,     \* controllers of suspended polls on which abort() was called
    creates,     \* handleCreate calls suspended at their await: [tid, sid], the
                 \* optimistic id and the id the service gives the record
    edits,       \* handleEdit calls suspended at their await: [id, prev]
    deletes,     \* handleDelete calls suspended at their await: [id, prev]
    nextId,      \* the id the remote service gives to the next POST it is sent
    started,     \* number of creates, updates and deletes started so far
    mounted,     \* FALSE once a render has thrown and React has removed the tree
    last         \* history: the step taken last, with the id it was about and
                 \* what the service returned (the list of a merged poll, the
                 \* entity of a successful create)

vars == <<records, loading, busyIds, error, editOpen, editing,
          tempId, abortRef, polls, aborted, creates, edits, deletes, nextId,
          started, mounted, last>>

\* ---- values ----
NoError == ""
LoadFailed == "Failed to load records."
CreateFailed == "Failed to create record."
UpdateFailed == "Failed to update record."
DeleteFailed == "Failed to delete record."

\* what RecordForm submits: {title, description}
Payloads ==
    {[title |-> "B", description |-> "d"]}

\* the title and description the service can hold for a record
ServerContents ==
    {[title |-> "A", description |-> ""], [title |-> "B", description |-> "d"]}

\* new Date().toISOString() on the client, and the stamps the service writes
Now == "now"
ServerStamps == {"t1"}

\* JavaScript's undefined and null, as values that carry no id
Undefined == [id |-> 0, title |-> "undefined", description |-> "undefined", created_at |-> "undefined"]
Null == [id |-> 0, title |-> "null", description |-> "null", created_at |-> "null"]

\* the ids of the records the service holds when the session starts
InitialServerIds == {1}

\* ids the service can have given out: to the records it held at the start
\* and to one record for every create of the session
ServerIds == 1..(Cardinality(InitialServerIds) + MaxMutations)

\* the canonical representations the service can return for id
ServerEntity(id) ==
    {[id |-> id, title |-> p.title, description |-> p.description, created_at |-> t] :
        p \in ServerContents, t \in ServerStamps}

AllServerEntities == UNION {ServerEntity(id) : id \in ServerIds}

\* res.data of POST /records and PUT /records/:id: the record as the service
\* stored it, taken to differ from what the form submitted, so that putting
\* it in the place of the optimistic row changes the row
Answers(id) ==
    {e \in ServerEntity(id) :
        [title |-> e.title, description |-> e.description] \notin Payloads}

AllAnswers == UNION {Answers(id) : id \in ServerIds}

Has(s, id) == \E i \in DOMAIN s : s[i].id = id

\* res.data of GET /records: a list of records the service holds, in id order
Snapshots(n) ==
    {s \in UNION {[1..m -> AllServerEntities] : m \in 0..MaxSnapshotLen} :
        /\ \A i, j \in DOMAIN s : i < j => s[i].id < s[j].id
        /\ \A i \in DOMAIN s : s[i].id < n}

\* ---- array helpers ----
\* s.map((r) => (r.id === id ? e : r))
ReplaceById(s, id, e) == [i \in DOMAIN s |-> IF s[i].id = id THEN e ELSE s[i]]

\* s.map((r) => (r.id === id ? { ...r, ...payload } : r))
MergeById(s, id, payload) ==
    [i \in DOMAIN s |->
        IF s[i].id = id
        THEN [s[i] EXCEPT !.title = payload.title, !.description = payload.description]
        ELSE s[i]]

\* s.filter((r) => r.id !== id)
FilterOut(s, id) == SelectSeq(s, LAMBDA r : r.id # id)

\* records.find((r) => r.id === id)
Find(s, id) ==
    IF \E i \in DOMAIN s : s[i].id = id
    THEN s[CHOOSE i \in DOMAIN s : s[i].id = id /\ \A j \in DOMAIN s : s[j].id = id => i <= j]
    ELSE Undefined

\* the render of App reads r.id of every row: it throws on a row that is undefined
RenderThrows(s) == \E i \in DOMAIN s : s[i] = Undefined

Init ==
    /\ records = <<>>
    /\ loading = TRUE
    /\ busyIds = {}
    /\ error = NoError
    /\ editOpen = FALSE
    /\ editing = Null
    /\ tempId = -1
    /\ abortRef = 1
    /\ polls = {1}
    /\ aborted = {}
    /\ creates = {}
    /\ edits = {}
    /\ deletes = {}
    /\ nextId = Cardinality(InitialServerIds) + 1
    /\ started = 0
    /\ mounted = TRUE
    /\ last = [op |-> "mount", id |-> 1, arg |-> <<>>]

\* abort() rejects the aborted request at once: the catch of the superseded
\* fetchRecords call runs before any event handler or any other answer
NoAbortPending == aborted = {}

\* ---- polling: fetchRecords ----
\* variant: the poll in flight is not aborted when a new one starts
FetchRecords_NoAbort ==
    /\ mounted
    /\ NoAbortPending
    /\ abortRef < MaxPolls
    /\ aborted' = aborted
    /\ abortRef' = abortRef + 1
    /\ polls' = polls \cup {abortRef + 1}
    /\ last' = [op |-> "fetch", id |-> abortRef + 1, arg |-> <<>>]
    /\ UNCHANGED <<records, loading, busyIds, error, editOpen, editing,
                   tempId, creates, edits, deletes, nextId, started, mounted>>

FetchRecords ==
    /\ mounted
    /\ NoAbortPending
    /\ abortRef < MaxPolls
    /\ aborted' = IF abortRef \in polls THEN aborted \cup {abortRef} ELSE aborted
    /\ abortRef' = abortRef + 1
    /\ polls' = polls \cup {abortRef + 1}
    /\ last' = [op |-> "fetch", id |-> abortRef + 1, arg |-> <<>>]
    /\ UNCHANGED <<records, loading, busyIds, error, editOpen, editing,
                   tempId, creates, edits, deletes, nextId, started, mounted>>

\* variant: a merge keeps the local copy of a row that has a mutation pending
FetchSuccess_KeepBusy(g, data) ==
    /\ mounted
    /\ NoAbortPending
    /\ g \in polls \ aborted
    /\ records' = [i \in DOMAIN data |->
                       IF data[i].id \in busyIds /\ Has(records, data[i].id)
                       THEN Find(records, data[i].id)
                       ELSE data[i]]
    /\ error' = NoError
    /\ loading' = FALSE
    /\ polls' = polls \ {g}
    /\ last' = [op |-> "fetchOk", id |-> g, arg |-> data]
    /\ UNCHANGED <<busyIds, editOpen, editing, tempId, abortRef, aborted,
                   creates, edits, deletes, nextId, started, mounted>>

FetchSuccess(g, data) ==
    /\ mounted
    /\ NoAbortPending
    /\ g \in polls \ aborted
    /\ records' = data
    /\ error' = NoError
    /\ loading' = FALSE
    /\ polls' = polls \ {g}
    /\ last' = [op |-> "fetchOk", id |-> g, arg |-> data]
    /\ UNCHANGED <<busyIds, editOpen, editing, tempId, abortRef, aborted,
                   creates, edits, deletes, nextId, started, mounted>>

\* variant: a failed poll blanks the table
FetchFail_Clear(g) ==
    /\ mounted
    /\ NoAbortPending
    /\ g \in polls \ aborted
    /\ error' = LoadFailed
    /\ records' = <<>>
    /\ loading' = FALSE
    /\ polls' = polls \ {g}
    /\ last' = [op |-> "fetchFail", id |-> g, arg |-> <<>>]
    /\ UNCHANGED <<busyIds, editOpen, editing, tempId, abortRef,
                   aborted, creates, edits, deletes, nextId, started, mounted>>

FetchFail(g) ==
    /\ mounted
    /\ NoAbortPending
    /\ g \in polls \ aborted
    /\ error' = LoadFailed
    /\ loading' = FALSE
    /\ polls' = polls \ {g}
    /\ last' = [op |-> "fetchFail", id |-> g, arg |-> <<>>]
    /\ UNCHANGED <<records, busyIds, editOpen, editing, tempId, abortRef,
                   aborted, creates, edits, deletes, nextId, started, mounted>>

FetchCanceled(g) ==
    /\ mounted
    /\ g \in polls \cap aborted
    /\ loading' = FALSE
    /\ polls' = polls \ {g}
    /\ aborted' = aborted \ {g}
    /\ last' = [op |-> "fetchCanceled", id |-> g, arg |-> <<>>]
    /\ UNCHANGED <<records, busyIds, error, editOpen, editing, tempId,
                   abortRef, creates, edits, deletes, nextId, started, mounted>>

\* ---- modals ----
openEdit(i) ==
    /\ mounted
    /\ NoAbortPending
    /\ i \in DOMAIN records
    /\ records[i].id \notin busyIds
    /\ editing' = records[i]
    /\ editOpen' = TRUE
    /\ last' = [op |-> "openEdit", id |-> records[i].id, arg |-> <<>>]
    /\ UNCHANGED <<records, loading, busyIds, error, tempId,
                   abortRef, polls, aborted, creates, edits, deletes, nextId, started, mounted>>

CloseEdit ==
    /\ mounted
    /\ NoAbortPending
    /\ editOpen
    /\ editOpen' = FALSE
    /\ editing' = Null
    /\ last' = [op |-> "closeEdit", id |-> 0, arg |-> <<>>]
    /\ UNCHANGED <<records, loading, busyIds, error, tempId,
                   abortRef, polls, aborted, creates, edits, deletes, nextId, started, mounted>>

\* ---- create: handleCreate ----
\* variant: the temporary id is not decremented
handleCreate_ReusedId(payload) ==
    /\ mounted
    /\ NoAbortPending
    /\ started < MaxMutations
    /\ started' = started + 1
    /\ records' = <<[id |-> tempId, title |-> payload.title,
                     description |-> payload.description, created_at |-> Now]>> \o records
    /\ tempId' = tempId
    /\ nextId' = nextId + 1
    /\ creates' = creates \cup {[tid |-> tempId, sid |-> nextId]}
    /\ last' = [op |-> "create", id |-> tempId, arg |-> <<>>]
    /\ UNCHANGED <<loading, busyIds, error, editOpen, editing, abortRef, polls,
                   aborted, edits, deletes, mounted>>

\* variant: the temporary id counts upwards
handleCreate_CountUp(payload) ==
    /\ mounted
    /\ NoAbortPending
    /\ started < MaxMutations
    /\ started' = started + 1
    /\ records' = <<[id |-> tempId, title |-> payload.title,
                     description |-> payload.description, created_at |-> Now]>> \o records
    /\ tempId' = tempId + 1
    /\ nextId' = nextId + 1
    /\ creates' = creates \cup {[tid |-> tempId, sid |-> nextId]}
    /\ last' = [op |-> "create", id |-> tempId, arg |-> <<>>]
    /\ UNCHANGED <<loading, busyIds, error, editOpen, editing, abortRef, polls,
                   aborted, edits, deletes, mounted>>

handleCreate(payload) ==
    /\ mounted
    /\ NoAbortPending
    /\ started < MaxMutations
    /\ started' = started + 1
    /\ records' = <<[id |-> tempId, title |-> payload.title,
                     description |-> payload.description, created_at |-> Now]>> \o records
    /\ tempId' = tempId - 1
    /\ nextId' = nextId + 1
    /\ creates' = creates \cup {[tid |-> tempId, sid |-> nextId]}
    /\ last' = [op |-> "create", id |-> tempId, arg |-> <<>>]
    /\ UNCHANGED <<loading, busyIds, error, editOpen, editing, abortRef, polls,
                   aborted, edits, deletes, mounted>>

\* variant: the server entity replaces the first row
CreateSuccess_First(c, created) ==
    /\ mounted
    /\ NoAbortPending
    /\ c \in creates
    /\ created.id = c.sid
    /\ records' = [i \in DOMAIN records |-> IF i = 1 THEN created ELSE records[i]]
    /\ creates' = creates \ {c}
    /\ last' = [op |-> "createOk", id |-> c.tid, arg |-> <<created>>]
    /\ UNCHANGED <<loading, busyIds, error, editOpen, editing, tempId,
                   abortRef, polls, aborted, edits, deletes, nextId, started, mounted>>

\* variant: a successful create clears the error
CreateSuccess_ClearError(c, created) ==
    /\ mounted
    /\ NoAbortPending
    /\ c \in creates
    /\ created.id = c.sid
    /\ records' = ReplaceById(records, c.tid, created)
    /\ error' = NoError
    /\ creates' = creates \ {c}
    /\ last' = [op |-> "createOk", id |-> c.tid, arg |-> <<created>>]
    /\ UNCHANGED <<loading, busyIds, editOpen, editing, tempId,
                   abortRef, polls, aborted, edits, deletes, nextId, started, mounted>>

CreateSuccess(c, created) ==
    /\ mounted
    /\ NoAbortPending
    /\ c \in creates
    /\ created.id = c.sid
    /\ records' = ReplaceById(records, c.tid, created)
    /\ creates' = creates \ {c}
    /\ last' = [op |-> "createOk", id |-> c.tid, arg |-> <<created>>]
    /\ UNCHANGED <<loading, busyIds, error, editOpen, editing, tempId,
                   abortRef, polls, aborted, edits, deletes, nextId, started, mounted>>

\* variant: a failed create removes every temporary row
CreateFail_AllPending(c) ==
    /\ mounted
    /\ NoAbortPending
    /\ c \in creates
    /\ records' = SelectSeq(records, LAMBDA r : r.id > 0)
    /\ error' = CreateFailed
    /\ creates' = creates \ {c}
    /\ last' = [op |-> "createFail", id |-> c.tid, arg |-> <<>>]
    /\ UNCHANGED <<loading, busyIds, editOpen, editing, tempId,
                   abortRef, polls, aborted, edits, deletes, nextId, started, mounted>>

CreateFail(c) ==
    /\ mounted
    /\ NoAbortPending
    /\ c \in creates
    /\ records' = FilterOut(records, c.tid)
    /\ error' = CreateFailed
    /\ creates' = creates \ {c}
    /\ last' = [op |-> "createFail", id |-> c.tid, arg |-> <<>>]
    /\ UNCHANGED <<loading, busyIds, editOpen, editing, tempId,
                   abortRef, polls, aborted, edits, deletes, nextId, started, mounted>>

\* ---- update: handleEdit ----
handleEdit(payload) ==
    /\ mounted
    /\ NoAbortPending
    /\ editOpen
    /\ started < MaxMutations
    /\ started' = started + 1
    /\ LET id == editing.id
           prev == Find(records, id)
       IN /\ [id |-> id, prev |-> prev] \notin edits
          /\ editOpen' = FALSE
          /\ editing' = Null
          /\ busyIds' = busyIds \cup {id}
          /\ records' = MergeById(records, id, payload)
          /\ edits' = edits \cup {[id |-> id, prev |-> prev]}
          /\ last' = [op |-> "edit", id |-> id, arg |-> <<>>]
    /\ UNCHANGED <<loading, error, tempId, abortRef, polls,
                   aborted, creates, deletes, nextId, mounted>>

\* variant: the title of the optimistic merge survives a successful update
EditSuccess_KeepTitle(c, updated) ==
    /\ mounted
    /\ NoAbortPending
    /\ c \in edits
    /\ updated.id = c.id
    /\ records' = [i \in DOMAIN records |->
                       IF records[i].id = c.id
                       THEN [updated EXCEPT !.title = records[i].title]
                       ELSE records[i]]
    /\ busyIds' = busyIds \ {c.id}
    /\ edits' = edits \ {c}
    /\ last' = [op |-> "editOk", id |-> c.id, arg |-> <<updated>>]
    /\ UNCHANGED <<loading, error, editOpen, editing, tempId, abortRef,
                   polls, aborted, creates, deletes, nextId, started, mounted>>

EditSuccess(c, updated) ==
    /\ mounted
    /\ NoAbortPending
    /\ c \in edits
    /\ updated.id = c.id
    /\ records' = ReplaceById(records, c.id, updated)
    /\ busyIds' = busyIds \ {c.id}
    /\ edits' = edits \ {c}
    /\ last' = [op |-> "editOk", id |-> c.id, arg |-> <<updated>>]
    /\ UNCHANGED <<loading, error, editOpen, editing, tempId, abortRef,
                   polls, aborted, creates, deletes, nextId, started, mounted>>

\* variant: a failed update leaves the optimistic value
EditFail_KeepOptimistic(c) ==
    /\ mounted
    /\ NoAbortPending
    /\ c \in edits
    /\ records' = records
    /\ error' = UpdateFailed
    /\ busyIds' = busyIds \ {c.id}
    /\ edits' = edits \ {c}
    /\ mounted' = ~RenderThrows(records')
    /\ last' = [op |-> "editFail", id |-> c.id, arg |-> <<>>]
    /\ UNCHANGED <<loading, editOpen, editing, tempId, abortRef,
                   polls, aborted, creates, deletes, nextId, started>>

EditFail(c) ==
    /\ mounted
    /\ NoAbortPending
    /\ c \in edits
    /\ records' = ReplaceById(records, c.id, c.prev)
    /\ error' = UpdateFailed
    /\ busyIds' = busyIds \ {c.id}
    /\ edits' = edits \ {c}
    /\ mounted' = ~RenderThrows(records')
    /\ last' = [op |-> "editFail", id |-> c.id, arg |-> <<>>]
    /\ UNCHANGED <<loading, editOpen, editing, tempId, abortRef,
                   polls, aborted, creates, deletes, nextId, started>>

\* ---- delete: handleDelete ----
handleDelete(i) ==
    /\ mounted
    /\ NoAbortPending
    /\ i \in DOMAIN records
    /\ records[i].id \notin busyIds
    /\ started < MaxMutations
    /\ started' = started + 1
    /\ LET id == records[i].id
       IN /\ [id |-> id, prev |-> records] \notin deletes
          /\ busyIds' = busyIds \cup {id}
          /\ records' = FilterOut(records, id)
          /\ deletes' = deletes \cup {[id |-> id, prev |-> records]}
          /\ last' = [op |-> "delete", id |-> id, arg |-> <<>>]
    /\ UNCHANGED <<loading, error, editOpen, editing, tempId, abortRef,
                   polls, aborted, creates, edits, nextId, mounted>>

\* variant: a successful delete filters its id out of the collection once more
DeleteSuccess_FilterAgain(c) ==
    /\ mounted
    /\ NoAbortPending
    /\ c \in deletes
    /\ records' = FilterOut(records, c.id)
    /\ busyIds' = busyIds \ {c.id}
    /\ deletes' = deletes \ {c}
    /\ last' = [op |-> "deleteOk", id |-> c.id, arg |-> <<>>]
    /\ UNCHANGED <<loading, error, editOpen, editing, tempId,
                   abortRef, polls, aborted, creates, edits, nextId, started, mounted>>

DeleteSuccess(c) ==
    /\ mounted
    /\ NoAbortPending
    /\ c \in deletes
    /\ busyIds' = busyIds \ {c.id}
    /\ deletes' = deletes \ {c}
    /\ last' = [op |-> "deleteOk", id |-> c.id, arg |-> <<>>]
    /\ UNCHANGED <<records, loading, error, editOpen, editing, tempId,
                   abortRef, polls, aborted, creates, edits, nextId, started, mounted>>

\* variant: a failed delete puts back only the deleted row
DeleteFail_Reinsert(c) ==
    /\ mounted
    /\ NoAbortPending
    /\ c \in deletes
    /\ records' = <<Find(c.prev, c.id)>> \o records
    /\ error' = DeleteFailed
    /\ busyIds' = busyIds \ {c.id}
    /\ deletes' = deletes \ {c}
    /\ last' = [op |-> "deleteFail", id |-> c.id, arg |-> <<>>]
    /\ UNCHANGED <<loading, editOpen, editing, tempId, abortRef,
                   polls, aborted, creates, edits, nextId, started, mounted>>

DeleteFail(c) ==
    /\ mounted
    /\ NoAbortPending
    /\ c \in deletes
    /\ records' = c.prev
    /\ error' = DeleteFailed
    /\ busyIds' = busyIds \ {c.id}
    /\ deletes' = deletes \ {c}
    /\ last' = [op |-> "deleteFail", id |-> c.id, arg |-> <<>>]
    /\ UNCHANGED <<loading, editOpen, editing, tempId, abortRef,
                   polls, aborted, creates, edits, nextId, started, mounted>>

Next ==
    \/ FetchRecords
    \/ \E g \in polls : \E data \in Snapshots(nextId) : FetchSuccess(g, data)
    \/ \E g \in polls : FetchFail(g)
    \/ \E g \in polls : FetchCanceled(g)
    \/ \E i \in DOMAIN records : openEdit(i)
    \/ CloseEdit
    \/ \E payload \in Payloads : handleCreate(payload)
    \/ \E c \in creates : \E created \in AllAnswers : CreateSuccess(c, created)
    \/ \E c \in creates : CreateFail(c)
    \/ \E payload \in Payloads : handleEdit(payload)
    \/ \E c \in edits : \E updated \in AllAnswers : EditSuccess(c, updated)
    \/ \E c \in edits : EditFail(c)
    \/ \E i \in DOMAIN records : handleDelete(i)
    \/ \E c \in deletes : DeleteSuccess(c)
    \/ \E c \in deletes : DeleteFail(c)

Spec == Init /\ [][Next]_vars

\* ---- the end of the component's life ----
\* the cleanup of the mount effect: clearInterval(id), and nothing else; the
\* buttons go with the tree, so no handler and no new poll starts afterwards
Unmount ==
    /\ mounted
    /\ NoAbortPending
    /\ mounted' = FALSE
    /\ last' = [op |-> "unmount", id |-> 0, arg |-> <<>>]
    /\ UNCHANGED <<records, loading, busyIds, error, editOpen, editing, tempId,
                   abortRef, polls, aborted, creates, edits, deletes, nextId, started>>

\* the request of a poll that was in flight at the unmount is answered: the
\* rest of fetchRecords runs, and its setRecords, setError and setLoading
\* reach a component that is gone, where React drops them
FetchAfterUnmount(g) ==
    /\ ~mounted
    /\ g \in polls \ aborted
    /\ polls' = polls \ {g}
    /\ last' = [op |-> "fetchLate", id |-> g, arg |-> <<>>]
    /\ UNCHANGED <<records, loading, busyIds, error, editOpen, editing, tempId,
                   abortRef, aborted, creates, edits, deletes, nextId, started, mounted>>

NextLifecycle ==
    \/ Next
    \/ Unmount
    \/ \E g \in polls : FetchAfterUnmount(g)

SpecLifecycle == Init /\ [][NextLifecycle]_vars

TypeOK ==
    /\ loading \in BOOLEAN
    /\ tempId \in (-MaxMutations - 1)..(-1)
    /\ aborted \subseteq polls
    /\ \A c \in creates : c.tid \in (-MaxMutations)..(-1) /\ c.sid \in ServerIds
    /\ nextId \in 1..(Cardinality(InitialServerIds) + MaxMutations + 1)
    /\ started \in 0..MaxMutations

\* ---- helpers of the properties ----
\* the suspended handleEdit / handleDelete call that the step resumes
ResumedEdit == CHOOSE c \in edits : c \notin edits'
ResumedDelete == CHOOSE c \in deletes : c \notin deletes'
ResumedCreate == CHOOSE c \in creates : c \notin creates'
PendingTempIds == {c.tid : c \in creates}

\* C1: the ids of the entities in the record collection are pairwise distinct
\* in every reachable state, whatever the interleaving of create, update,
\* delete, their resolutions and poll merges.
C1_Uniqueness ==
    \A i, j \in DOMAIN records : i # j => records[i].id # records[j].id

\* a server entity and a pending temporary one side by side after a create resolved
C1_Witness ==
    /\ last.op = "createOk"
    /\ Len(records) >= 2
    /\ \E i \in DOMAIN records : records[i].id > 0
    /\ \E i \in DOMAIN records : records[i].id < 0

\* C2: a poll snapshot merged while a create is unresolved neither removes nor
\* alters the pending temporary entity: it is in the collection, unchanged,
\* immediately after the merge.
C2_TempIdSurvival ==
    [][last'.op = "fetchOk" =>
          \A i \in DOMAIN records :
              records[i].id \in PendingTempIds =>
                  \E j \in DOMAIN records' : records'[j] = records[i]]_vars

\* C3 as stated: after a failed update the entity at id is in the collection
\* with its pre-update value, under any interleaving, and error is UpdateFailed.
C3_RollbackUnderAnyInterleaving ==
    [][(last'.op = "editFail" /\ ResumedEdit.id > 0 /\ ResumedEdit.prev # Undefined) =>
          /\ error' = UpdateFailed
          /\ \E i \in DOMAIN records' :
                 records'[i].id = ResumedEdit.id /\ records'[i] = ResumedEdit.prev]_vars

\* C3 amended: an update takes the entity at id as its pre-update value; when
\* its call fails, error is UpdateFailed, every entity that then has that id
\* is set back to exactly the pre-update value, every other entity is
\* unchanged, and an id that a poll or a delete removed meanwhile stays absent.
C3_RollbackWherePresent ==
    /\ [][last'.op = "edit" =>
             \E c \in edits' \ edits :
                 /\ c.id = editing.id
                 /\ c.prev = IF Has(records, c.id)
                             THEN records[CHOOSE i \in DOMAIN records : records[i].id = c.id]
                             ELSE Undefined]_vars
    /\ [][(last'.op = "editFail" /\ ResumedEdit.prev # Undefined) =>
             /\ error' = UpdateFailed
             /\ DOMAIN records' = DOMAIN records
             /\ \A i \in DOMAIN records :
                    records'[i] = IF records[i].id = ResumedEdit.id
                                  THEN ResumedEdit.prev
                                  ELSE records[i]]_vars

\* a failed update has put the title the entity had before the update back
C3_Witness ==
    /\ last.op = "editFail"
    /\ error = UpdateFailed
    /\ \E i \in DOMAIN records : records[i].id = last.id /\ records[i].title = "A"

\* C4: a delete takes the whole collection as its snapshot; when its call fails
\* the collection (every entity and the order) equals that snapshot again and
\* error is DeleteFailed.
C4_DeleteRollback ==
    /\ [][last'.op = "delete" =>
             \E c \in deletes' \ deletes : c.id = last'.id /\ c.prev = records]_vars
    /\ [][last'.op = "deleteFail" =>
             records' = ResumedDelete.prev /\ error' = DeleteFailed]_vars

\* a failed delete has restored a collection that also holds another entity
C4_Witness ==
    /\ last.op = "deleteFail"
    /\ error = DeleteFailed
    /\ Has(records, last.id)
    /\ \E i \in DOMAIN records : records[i].id # last.id

\* C5: when a create succeeds, exactly the entity whose id is that create's
\* temporary id is replaced, at its position, by the server entity, every other
\* entity is unchanged, and without such an entity the collection is unchanged.
C5_ReplaceByIdentity ==
    [][last'.op = "createOk" =>
          /\ DOMAIN records' = DOMAIN records
          /\ \A i \in DOMAIN records :
                 IF records[i].id = last'.id
                 THEN records'[i] = last'.arg[1] /\ last'.arg[1].id = ResumedCreate.sid
                 ELSE records'[i] = records[i]]_vars

\* the server entity has replaced a temporary entity that was not the first row
C5_Witness ==
    /\ last.op = "createOk"
    /\ Len(records) >= 2
    /\ records[1].id < 0
    /\ records[2] = last.arg[1]

\* C6: when a create fails, no entity with its temporary id is left, every
\* other entity is still there, unchanged and in the same order, and error is
\* CreateFailed.
C6_CreateRollback ==
    [][last'.op = "createFail" =>
          /\ records' = SelectSeq(records, LAMBDA r : r.id # last'.id)
          /\ ~Has(records', last'.id)
          /\ error' = CreateFailed]_vars

\* a failed create has been rolled back and another entity is still shown
C6_Witness ==
    /\ last.op = "createFail"
    /\ error = CreateFailed
    /\ records # <<>>
    /\ ~Has(records, last.id)

\* C7: immediately after a poll merges snapshot S the collection holds, for
\* every id in S, exactly the entity from S, also when an update on that id is
\* pending, and no entity with an id outside S unless that id is negative.
C7_MergeAuthority ==
    [][last'.op = "fetchOk" =>
          LET S == last'.arg
          IN /\ \A i \in DOMAIN S :
                    \A j \in DOMAIN records' :
                        records'[j].id = S[i].id => records'[j] = S[i]
             /\ \A i \in DOMAIN S : Has(records', S[i].id)
             /\ \A j \in DOMAIN records' :
                    Has(S, records'[j].id) \/ records'[j].id < 0]_vars

\* a poll has merged an entity whose id has an update or delete pending
C7_Witness ==
    /\ last.op = "fetchOk"
    /\ \E i \in DOMAIN records : records[i].id \in busyIds

\* C8: starting a poll cancels the one in flight; the outcome of a cancelled
\* poll changes neither the collection nor the error; only the poll started
\* last is ever merged or reported as failed.
C8_PollSupersession ==
    /\ [][last'.op = "fetch" => polls' \ aborted' = {abortRef'}]_vars
    /\ [][last'.op = "fetchCanceled" => records' = records /\ error' = error]_vars
    /\ [][last'.op \in {"fetchOk", "fetchFail"} =>
             last'.id = abortRef /\ last'.id \notin aborted]_vars

\* the outcome of a cancelled poll arrived while rows were shown
C8_Witness ==
    /\ last.op = "fetchCanceled"
    /\ records # <<>>

\* C9: when a poll that was not cancelled fails, error is LoadFailed and the
\* collection is what it was.
C9_PollFailureKeepsData ==
    [][last'.op = "fetchFail" => error' = LoadFailed /\ records' = records]_vars

\* a poll failed while rows were shown
C9_Witness ==
    /\ last.op = "fetchFail"
    /\ error = LoadFailed
    /\ records # <<>>

FailureOf ==
    [fetchFail |-> LoadFailed, createFail |-> CreateFailed,
     editFail |-> UpdateFailed, deleteFail |-> DeleteFailed]

\* C10 as stated: a failure replaces the error, and the success of a create,
\* update, delete or poll leaves the error as it is.
C10_NoSuccessClearsError ==
    [][/\ last'.op \in DOMAIN FailureOf => error' = FailureOf[last'.op]
       /\ last'.op \in {"createOk", "editOk", "deleteOk", "fetchOk"} => error' = error]_vars

\* C10 amended: a failure replaces the error; the success of a create, update
\* or delete leaves it as it is; a successful poll clears it; no other step
\* changes it.
C10_SingleErrorSlot ==
    [][/\ last'.op \in DOMAIN FailureOf => error' = FailureOf[last'.op]
       /\ last'.op = "fetchOk" => error' = NoError
       /\ last'.op \notin (DOMAIN FailureOf \cup {"fetchOk"}) => error' = error]_vars

\* a stale error is still shown after a create, update or delete succeeded
C10_Witness ==
    /\ last.op \in {"createOk", "editOk", "deleteOk"}
    /\ error # NoError

\* every id that a row, a pending call or the edit form carries
KnownIds ==
    {records[i].id : i \in DOMAIN records}
        \cup {c.tid : c \in creates}
        \cup {c.id : c \in edits} \cup {c.id : c \in deletes}
        \cup UNION {{c.prev[i].id : i \in DOMAIN c.prev} : c \in deletes}
        \cup {c.prev.id : c \in edits} \cup {editing.id}

\* C11: a create takes the current value of the counter as its temporary id;
\* that id is negative, it is no id the service gives out, it is on no row and
\* in no pending call yet, and the counter only ever decreases, so the id is
\* smaller than every id taken before and is never taken again.
C11_TemporaryIds ==
    /\ [][last'.op = "create" =>
             \E c \in creates' \ creates :
                 /\ c.tid = tempId /\ c.tid = last'.id
                 /\ c.tid < 0
                 /\ c.tid \notin ServerIds /\ c.tid # c.sid
                 /\ c.tid \notin KnownIds
                 /\ tempId' < c.tid
                 /\ records'[1].id = c.tid]_vars
    /\ [][tempId' <= tempId]_vars
    /\ [](\A id \in KnownIds : id < 0 => tempId < id)

\* a second create has taken -2 while the first temporary row is still shown
C11_Witness ==
    /\ last.op = "create"
    /\ last.id = -2
    /\ Len(records) >= 2
    /\ records[1].id = -2
    /\ records[2].id = -1

C13_RemovalStandsUnderPolls ==
    [][last'.op = "deleteOk" =>
          records' = records /\ ~Has(records', ResumedDelete.id)]_vars

\* C13 amended: the delete step removes every entity with its id; the success
\* of the call leaves the collection as it is; and while the call is pending
\* an entity with that id comes back only by a poll merge, by the rollback of
\* another delete or by the success of a create.
C13_DeleteSuccessStands ==
    /\ [][last'.op = "delete" => ~Has(records', last'.id)]_vars
    /\ [][last'.op = "deleteOk" => records' = records]_vars
    /\ [][\A c \in deletes \cap deletes' :
             (~Has(records, c.id) /\ Has(records', c.id)) =>
                 last'.op \in {"fetchOk", "deleteFail", "createOk"}]_vars

\* a delete succeeded after a poll, its id is gone and another row is shown
C13_Witness ==
    /\ last.op = "deleteOk"
    /\ ~Has(records, last.id)
    /\ records # <<>>
    /\ ~loading

\* C14: once the component is unmounted no poll starts, every poll still in
\* flight has been cancelled, and no step changes the collection or the error.
C14_CancellationOnUnmount ==
    /\ [][~mounted => polls' \subseteq polls]_vars
    /\ [][~mounted => records' = records /\ error' = error]_vars
    /\ [](~mounted => polls \subseteq aborted)

\* C15: while a mutation is in flight its id is in the busy set: the temporary
\* id of an unresolved create, the id of an unresolved update or delete.
C15_PendingSetContents ==
    /\ \A c \in creates : c.tid \in busyIds
    /\ \A c \in edits : c.id \in busyIds
    /\ \A c \in deletes : c.id \in busyIds

MutationSteps ==
    {"create", "createOk", "createFail", "edit", "editOk", "editFail",
     "delete", "deleteOk", "deleteFail"}

\* the ids a step of a mutation is about: its own id and, for a create that
\* succeeds, the id the service gave the record
OwnIds == {last'.id} \cup {c.sid : c \in creates \ creates'}

\* C16: the optimistic step and the resolution of a mutation on one id leave
\* the entities with every other id as they are: none is changed, added or
\* removed.
C16_IndependenceAcrossIds ==
    [][last'.op \in MutationSteps =>
          SelectSeq(records', LAMBDA r : r.id \notin OwnIds)
              = SelectSeq(records, LAMBDA r : r.id \notin OwnIds)]_vars

\* C17: an update whose id is on no row when it is submitted changes neither
\* the collection nor the error, at the call and when it resolves.
C17_UpdateOnAbsentIdIsNoOp ==
    /\ [][(last'.op = "edit" /\ ~Has(records, last'.id)) =>
             records' = records /\ error' = error]_vars
    /\ [][(last'.op \in {"editOk", "editFail"} /\ ResumedEdit.prev = Undefined) =>
             records' = records /\ error' = error]_vars

\* C18: a temporary id is in the collection only while its create is
\* unresolved: once the create has succeeded or failed, no entity carries it.
C18_ResolvedTempIdGone ==
    \A i \in DOMAIN records :
        records[i].id < 0 => records[i].id \in PendingTempIds

\* C19: an id is in the busy set exactly when an update or a delete on it is
\* in flight; with none in flight the busy set is empty.
C19_BusySetExact ==
    busyIds = {c.id : c \in edits} \cup {c.id : c \in deletes}

\* C20: every element of the collection is an entity that carries an id; no
\* step writes undefined into the collection.
C20_WellFormedEntities ==
    \A i \in DOMAIN records : records[i] # Undefined /\ records[i].id # 0
====
